---- MODULE Spec2Model ----
(***************************************************************************)
(* PixelManager (src/src/three/pixel-manager.js): the pixel-group batching *)
(* and dynamic-sizing engine.                                              *)
(*                                                                         *)
(* Numbers.  Lengths (world coordinates, sizes) are fixed-point integers   *)
(* counted in ticks, Tick ticks to one world unit; a division rounds down  *)
(* to a tick, which stands for the rounding of the JavaScript doubles and  *)
(* of the Float32Array the positions are stored in.                        *)
(*                                                                         *)
(* Grid.  data/data.json is not part of the sources.  The grid has NRows   *)
(* rows and NCols columns; the model tracks the cells of Cells (a sample   *)
(* that holds the designated centre cell) and every other cell holds the   *)
(* colour of the first sampled cell, so that the set of colours in use,    *)
(* and with it the bucket structure, is that of the whole grid.  The       *)
(* batches of the model hold the quads of the sampled cells.               *)
(***************************************************************************)
EXTENDS Integers, Sequences, FiniteSets, TLC

\* ------------------------------------------------------------ constants
PIXEL_SIZE == 10
MAX_PIXEL_SIZE_PX == 128
N_GROUPS == 3
MAGIC_NUMBER == 551
centerRow == 132
centerCol == 76
distanceOffset == 16

\* ------------------------------------------------------------ bounds
\* ticks to one world unit
Tick == 100
\* the size of the grid (data.length, data[0].length)
NRows == 265
NCols == 138
\* how many of SampleCells the model tracks
NCells == 3

\* this.pixelSize, set once in the constructor and never assigned again
pixelSize == PIXEL_SIZE * Tick

\* the tracked cells, <<row, col>>, in the order the build pass visits them
SampleCells ==
  << <<10, 11>>, <<132, 76>>, <<132, 77>>, <<133, 5>>, <<133, 77>> >>

Cells == SubSeq(SampleCells, 1, NCells)

\* ------------------------------------------------------------ JavaScript
HexDigits ==
  << "0", "1", "2", "3", "4", "5", "6", "7",
     "8", "9", "a", "b", "c", "d", "e", "f" >>

\* parseInt(digit, 16) of one hexadecimal digit
ParseInt16(digit) == (CHOOSE i \in 1..16 : HexDigits[i] = digit) - 1

RECURSIVE ParseHexString(_)
\* parseInt(s, 16) of a string of hexadecimal digits (a sequence of characters)
ParseHexString(s) ==
  IF s = << >> THEN 0
  ELSE 16 * ParseHexString(SubSeq(s, 1, Len(s) - 1)) + ParseInt16(s[Len(s)])

\* x >> n on a non-negative 32-bit integer: the shift count is taken modulo 32
ShiftRight(x, n) == x \div (2 ^ (n % 32))

\* a % b of JavaScript: the sign of the result is the sign of a
JsRem(a, b) == IF a >= 0 THEN a % b ELSE 0 - ((0 - a) % b)

\* 0.5 * s, rounded down to a tick
Half(s) == s \div 2

Min(a, b) == IF a <= b THEN a ELSE b

\* Math.tan(fov * Math.PI / 180 / 2) in thousandths, for the fields of view
\* the cameras of the model take
TanHalfMilli(fov) ==
  CASE fov = 50 -> 466
    [] fov = 90 -> 1000
    [] fov = 270 -> 0 - 1000

\* ------------------------------------------------------------ palette
\* constants/colors: the palette, index -> "#rrggbb"
colorMap ==
  << << "#", "f", "f", "f", "f", "f", "f" >>,
     << "#", "e", "4", "e", "4", "e", "4" >>,
     << "#", "8", "8", "8", "8", "8", "8" >>,
     << "#", "2", "2", "2", "2", "2", "2" >> >>

getHexColorByIndex(colorIndex) ==
  LET colorString == colorMap[colorIndex + 1]
      stripped == IF colorString[1] = "#" THEN Tail(colorString) ELSE colorString
  IN  ParseHexString(stripped)

threeColorsByIndex == [i \in 1..Len(colorMap) |-> getHexColorByIndex(i - 1)]

\* undefined for an index the palette does not hold
getColorByIndex(colorIndex) ==
  IF colorIndex + 1 \in DOMAIN threeColorsByIndex
  THEN threeColorsByIndex[colorIndex + 1]
  ELSE "undefined"

\* ------------------------------------------------------------ groups
getNGroups(colorIndex) == IF colorIndex = 0 THEN N_GROUPS * 3 ELSE N_GROUPS


\* the hash without its reduction to the sub-groups of the colour
groupNumberOfUnreduced(colorIndex, rowIndex, colIndex) ==
  ShiftRight(rowIndex + colIndex + rowIndex * rowIndex * colIndex, MAGIC_NUMBER)

\* the hash reduced modulo the number of sub-groups, not that number minus one
groupNumberOfAllGroups(colorIndex, rowIndex, colIndex) ==
  JsRem(ShiftRight(rowIndex + colIndex + rowIndex * rowIndex * colIndex, MAGIC_NUMBER),
        getNGroups(colorIndex))

\* the sub-group the hash of addColorVertex assigns (line 60-61)
groupNumberOf(colorIndex, rowIndex, colIndex) ==
  LET calc == rowIndex + colIndex + rowIndex * rowIndex * colIndex
  IN  JsRem(ShiftRight(calc, MAGIC_NUMBER), getNGroups(colorIndex) - 1)

\* ------------------------------------------------------------ state
VARIABLES
  data,              \* data[k]: the hexadecimal digit the grid holds at Cells[k]
  camera,            \* [fov, z]: camera.fov and camera.position.z (z in ticks)
  innerHeight,       \* window.innerHeight
  bufferGeometries,  \* this.bufferGeometries: buckets of batches of lists
  pixelGroups,       \* this.pixelGroups: the meshes, in the order they were pushed
  pc,                \* "build", "ready", or "crashed" (the constructor threw)
  cursor,            \* the next cell of Cells the build pass visits
  coordsArg,         \* the argument of the last getCoordinatesFromPixel
  coords,            \* its result
  pickArg,           \* the argument of the last getPixelFromCoordinates
  pixel              \* its result

engineVars == << data, camera, innerHeight, bufferGeometries, pixelGroups, pc, cursor >>
mapVars == << coordsArg, coords, pickArg, pixel >>
vars == << data, camera, innerHeight, bufferGeometries, pixelGroups, pc, cursor,
           coordsArg, coords, pickArg, pixel >>

\* ------------------------------------------------------------ inputs
\* the digits a grid of the model is made of
Digits == {"0", "1", "2"}

Grids == [1..NCells -> Digits]

\* the camera and the window: [fov (degrees), z (ticks), innerHeight (px)]
Views ==
  { [fov |-> 50,  z |-> 30 * Tick,      h |-> 900],
    [fov |-> 50,  z |-> 30 * Tick,      h |-> 300],
    [fov |-> 90,  z |-> 400 * Tick,     h |-> 900],
    [fov |-> 50,  z |-> 0 - 20 * Tick,  h |-> 900],
    [fov |-> 270, z |-> 30 * Tick,      h |-> 900] }

\* the camera the coordinate mapping is exercised under
HomeView == [fov |-> 50, z |-> 30 * Tick, h |-> 900]

\* the values an animation gives to a mesh's position.z (ticks)
Depths == {0, 0 - 320 * Tick}

\* the meshes the animation of the model moves (indices into pixelGroups)
MovedGroups == {1}

\* ------------------------------------------------------------ constructor
RECURSIVE SortedSeq(_)
\* the keys of countsByColor in the order JavaScript enumerates integer keys
SortedSeq(S) ==
  IF S = {} THEN << >>
  ELSE LET m == CHOOSE x \in S : \A y \in S : x <= y
       IN  << m >> \o SortedSeq(S \ {m})

\* the keys of countsByColor (lines 27-34): the colours the grid uses
countsByColorKeys(d) == SortedSeq({ParseInt16(d[k]) : k \in DOMAIN d})

emptyBatch == [positions |-> << >>, centers |-> << >>, indices |-> << >>]

\* this.bufferGeometries (lines 36-43): one bucket per key, in key order,
\* of getNGroups(key) empty batches
newBufferGeometries(d) ==
  LET keys == countsByColorKeys(d)
  IN  [p \in 1..Len(keys) |-> [g \in 1..getNGroups(keys[p]) |-> emptyBatch]]

\* ------------------------------------------------------------ build pass
\* does bufferGeometries[colorIndex] exist
BucketDefined(bg, colorIndex) == colorIndex + 1 \in DOMAIN bg

\* does bufferGeometries[colorIndex][groupIndex] exist
SlotDefined(bg, colorIndex, groupIndex) ==
  /\ BucketDefined(bg, colorIndex)
  /\ groupIndex + 1 \in DOMAIN bg[colorIndex + 1]

\* THREE.PlaneGeometry(w, h): its four vertices and its two faces
PlaneVertices(w, h) ==
  << << 0 - Half(w), Half(h), 0 >>,
     << Half(w), Half(h), 0 >>,
     << 0 - Half(w), 0 - Half(h), 0 >>,
     << Half(w), 0 - Half(h), 0 >> >>

PlaneFaces == << << 0, 2, 1 >>, << 2, 3, 1 >> >>

\* the anchor of a cell (lines 97-110)
offsetRow == Half(NRows * pixelSize) - Half(pixelSize)
offSetCol == Half(NCols * pixelSize) + 7 * pixelSize
vertexOf(rowIndex, colIndex) ==
  << rowIndex * pixelSize - offsetRow, colIndex * pixelSize - offSetCol, 0 >>

\* a face that pushes the centre of two of its three vertices
pushFaceTwoCenters(batch, face, vertex) ==
  [positions |-> batch.positions
                   \o PlaneVertices(pixelSize, pixelSize)[face[1] + 1]
                   \o PlaneVertices(pixelSize, pixelSize)[face[2] + 1]
                   \o PlaneVertices(pixelSize, pixelSize)[face[3] + 1],
   centers   |-> batch.centers \o vertex \o vertex,
   indices   |-> batch.indices \o face]

\* what one face pushes (lines 73-90)
pushFace(batch, face, vertex) ==
  LET verts == PlaneVertices(pixelSize, pixelSize)
      corner(i) == << verts[face[i] + 1][1] + vertex[1],
                      verts[face[i] + 1][2] + vertex[2],
                      verts[face[i] + 1][3] + vertex[3] >>
  IN  [positions |-> batch.positions \o corner(1) \o corner(2) \o corner(3),
       centers   |-> batch.centers \o vertex \o vertex \o vertex,
       indices   |-> batch.indices \o face]

pushQuad(batch, vertex) ==
  pushFace(pushFace(batch, PlaneFaces[1], vertex), PlaneFaces[2], vertex)

\* the target without the override of the centre cell
targetOfHashOnly(colorIndex, rowIndex, colIndex) ==
  << colorIndex, groupNumberOf(colorIndex, rowIndex, colIndex) >>

\* the batch addColorVertex writes to, <<colorIndex, groupIndex>> (lines 63-68)
targetOf(colorIndex, rowIndex, colIndex) ==
  IF rowIndex = centerRow /\ colIndex = centerCol
  THEN << 0, 0 >>
  ELSE << colorIndex, groupNumberOf(colorIndex, rowIndex, colIndex) >>

\* does addColorVertex throw: line 55 reads [groupIndex] of an undefined bucket,
\* or line 77 reads .positions of an undefined batch
addColorVertexThrows(bg, colorIndex, rowIndex, colIndex) ==
  LET t == targetOf(colorIndex, rowIndex, colIndex)
  IN  \/ ~BucketDefined(bg, colorIndex)
      \/ ~SlotDefined(bg, t[1], t[2])

\* bufferGeometries after an addColorVertex that does not throw
addColorVertex(bg, colorIndex, rowIndex, colIndex) ==
  LET t == targetOf(colorIndex, rowIndex, colIndex)
  IN  [bg EXCEPT ![t[1] + 1][t[2] + 1] =
         pushQuad(@, vertexOf(rowIndex, colIndex))]


RECURSIVE built(_, _)
\* bufferGeometries after the build pass has visited the first k cells
built(d, k) ==
  IF k = 0 THEN newBufferGeometries(d)
  ELSE addColorVertex(built(d, k - 1), ParseInt16(d[k]), Cells[k][1], Cells[k][2])

\* ------------------------------------------------------------ materializer
\* new THREE.Float32BufferAttribute(list, 3): a copy of the list; a tick is the
\* precision of the model, so the copy holds the same numbers
Float32Array(list) == list

\* new THREE.Uint16BufferAttribute(list, 1)
Uint16Array(list) == [n \in 1..Len(list) |-> list[n] % 65536]

\* the mesh of one batch (lines 120-143); colorIndex is the index of the bucket
\* in this.bufferGeometries
newPixelGroup(batch, colorIndex) ==
  [position |-> Float32Array(batch.positions),
   center |-> Float32Array(batch.centers),
   vertexIndex |-> Uint16Array(batch.indices),
   positionNeedsUpdate |-> FALSE,
   color |-> getColorByIndex(colorIndex),
   size |-> [value |-> pixelSize, needsUpdate |-> FALSE],
   depthCompensation |-> 1,
   z |-> 0]

RECURSIVE meshesOf(_, _)
\* the meshes of the first p buckets, in the order createBufferGeometries pushes them
meshesOf(bg, p) ==
  IF p = 0 THEN << >>
  ELSE meshesOf(bg, p - 1) \o
       [g \in 1..Len(bg[p]) |-> newPixelGroup(bg[p][g], p - 1)]

createBufferGeometries(bg) == meshesOf(bg, Len(bg))

RECURSIVE groupsBefore(_, _)
groupsBefore(bg, p) == IF p = 0 THEN 0 ELSE groupsBefore(bg, p - 1) + Len(bg[p])

\* the index in pixelGroups (from 1) of the mesh of bufferGeometries[colorIndex][groupIndex]
meshIndex(bg, colorIndex, groupIndex) == groupsBefore(bg, colorIndex) + groupIndex + 1

\* ------------------------------------------------------------ dynamic sizing
\* the size without the clamp to the nominal pixel size
getSizeUnclamped(pixelGroup, cam, h) ==
  (MAX_PIXEL_SIZE_PX
     * ((2 * TanHalfMilli(cam.fov) * (cam.z - (pixelGroup.z \div distanceOffset))) \div 1000))
    \div h

\* getSize (lines 149-166) for a mesh, a camera and a window height
getSize(pixelGroup, cam, h) ==
  LET depth == cam.z - (pixelGroup.z \div distanceOffset)
      height == (2 * TanHalfMilli(cam.fov) * depth) \div 1000
      maxSize == (MAX_PIXEL_SIZE_PX * height) \div h
  IN  Min(pixelSize, maxSize)

\* a JavaScript value with its type
JsNumber(n) == [js |-> "number", v |-> n]
JsObject(o) == [js |-> "object", v |-> o]

\* a !== b
StrictNotEqual(a, b) == a.js # b.js \/ a.v # b.v

\* the test of line 177: the computed size against the uniform (the object)
sizeChanged(size, pixelGroup) ==
  StrictNotEqual(JsNumber(size), JsObject(pixelGroup.size))

\* one mesh after updatePixelSize (lines 174-180)
withPixelSize(pixelGroup, cam, h) ==
  LET size == getSize(pixelGroup, cam, h)
  IN  IF sizeChanged(size, pixelGroup)
      THEN [pixelGroup EXCEPT !.size = [value |-> size, needsUpdate |-> TRUE]]
      ELSE pixelGroup

NaN == 0 - 999999999

\* corner 2 placed to the right of the centre
cornerXMirrored(vertexIndex, centerX, size) ==
  IF vertexIndex = 0 THEN centerX - Half(size) ELSE centerX + Half(size)

\* the corner offsets of lines 204-216
cornerX(vertexIndex, centerX, size) ==
  CASE vertexIndex = 0 -> centerX - Half(size)
    [] vertexIndex = 1 -> centerX + Half(size)
    [] vertexIndex = 2 -> centerX - Half(size)
    [] vertexIndex = 3 -> centerX + Half(size)
    [] OTHER -> NaN

cornerY(vertexIndex, centerY, size) ==
  CASE vertexIndex = 0 -> centerY + Half(size)
    [] vertexIndex = 1 -> centerY + Half(size)
    [] vertexIndex = 2 -> centerY - Half(size)
    [] vertexIndex = 3 -> centerY - Half(size)
    [] OTHER -> NaN

\* the position array of one mesh after the loop of lines 198-220: the floats
\* 3j and 3j+1 of every vertex j < length / 3 are overwritten in place
rewrittenPositions(pixelGroup, size) ==
  LET nVertices == Len(pixelGroup.position) \div 3
  IN  [n \in 1..Len(pixelGroup.position) |->
         LET j == (n - 1) \div 3
             k == (n - 1) % 3
         IN  IF j < nVertices /\ k = 0
             THEN cornerX(pixelGroup.vertexIndex[j + 1], pixelGroup.center[3 * j + 1], size)
             ELSE IF j < nVertices /\ k = 1
             THEN cornerY(pixelGroup.vertexIndex[j + 1], pixelGroup.center[3 * j + 2], size)
             ELSE pixelGroup.position[n]]

\* one mesh after updateBufferGeometry (lines 191-221)
withBufferGeometry(pixelGroup, cam, h) ==
  [pixelGroup EXCEPT
     !.position = rewrittenPositions(pixelGroup, getSize(pixelGroup, cam, h)),
     !.positionNeedsUpdate = TRUE]


\* ------------------------------------------------------------ coordinate mapping
\* Math.floor(x / this.pixelSize + 0.5)
roundedCells(x) == (2 * x + pixelSize) \div (2 * pixelSize)

\* data[row][col] of a cell inside the grid
dataAt(d, row, col) ==
  IF \E k \in 1..NCells : Cells[k] = << row, col >>
  THEN d[CHOOSE k \in 1..NCells : Cells[k] = << row, col >>]
  ELSE d[1]

\* getPixelFromCoordinates (lines 231-240).  data[row] is undefined for a row
\* outside the grid and reading [col] of it throws; data[row][col] is undefined
\* for a column outside the grid and parseInt(undefined, 16) is NaN
getPixelFromCoordinates(d, x, y) ==
  LET row == centerRow + roundedCells(x)
      col == centerCol + roundedCells(y)
  IN  IF row \notin 0..(NRows - 1)
      THEN [kind |-> "TypeError", row |-> row, col |-> col, colorIndex |-> NaN]
      ELSE IF col \notin 0..(NCols - 1)
      THEN [kind |-> "returned", row |-> row, col |-> col, colorIndex |-> NaN]
      ELSE [kind |-> "returned", row |-> row, col |-> col,
            colorIndex |-> ParseInt16(dataAt(d, row, col))]

\* the row measured from centerCol and the column from centerRow
getCoordinatesFromPixelSwapped(row, col) ==
  [x |-> (row - centerCol) * pixelSize, y |-> (col - centerRow) * pixelSize]

\* getCoordinatesFromPixel (lines 242-246)
getCoordinatesFromPixel(row, col) ==
  [x |-> (row - centerRow) * pixelSize, y |-> (col - centerCol) * pixelSize]

\* ------------------------------------------------------------ actions
noArg == [set |-> FALSE, a |-> 0, b |-> 0]
noPixel == [kind |-> "none", row |-> 0, col |-> 0, colorIndex |-> NaN]

\* the constructor up to line 48, for a grid and a camera
Init ==
  /\ data \in Grids
  /\ \E v \in Views :
       /\ camera = [fov |-> v.fov, z |-> v.z]
       /\ innerHeight = v.h
  /\ bufferGeometries = newBufferGeometries(data)
  /\ pixelGroups = << >>
  /\ pc = "build"
  /\ cursor = 1
  /\ coordsArg = noArg
  /\ coords = noArg
  /\ pickArg = noArg
  /\ pixel = noPixel

\* one turn of the loops of addColorVertices (lines 100-114)
AddColorVertex ==
  /\ pc = "build"
  /\ cursor <= NCells
  /\ LET colorIndex == ParseInt16(data[cursor])
         rowIndex == Cells[cursor][1]
         colIndex == Cells[cursor][2]
     IN  IF addColorVertexThrows(bufferGeometries, colorIndex, rowIndex, colIndex)
         THEN /\ pc' = "crashed"
              /\ UNCHANGED << bufferGeometries, cursor >>
         ELSE /\ bufferGeometries' =
                   addColorVertex(bufferGeometries, colorIndex, rowIndex, colIndex)
              /\ cursor' = cursor + 1
              /\ pc' = pc
  /\ UNCHANGED << data, camera, innerHeight, pixelGroups >>
  /\ UNCHANGED mapVars

\* createBufferGeometries (lines 117-147), which ends the constructor
CreateBufferGeometries ==
  /\ pc = "build"
  /\ cursor = NCells + 1
  /\ pixelGroups' = createBufferGeometries(bufferGeometries)
  /\ pc' = "ready"
  /\ UNCHANGED << data, camera, innerHeight, bufferGeometries, cursor >>
  /\ UNCHANGED mapVars

\* the camera moves or the window is resized
SetView(v) ==
  /\ pc = "ready"
  /\ camera' = [fov |-> v.fov, z |-> v.z]
  /\ innerHeight' = v.h
  /\ << camera', innerHeight' >> # << camera, innerHeight >>
  /\ UNCHANGED << data, bufferGeometries, pixelGroups, pc, cursor >>
  /\ UNCHANGED mapVars

\* an animation moves a mesh along z
MoveGroup(i, z) ==
  /\ pc = "ready"
  /\ i \in DOMAIN pixelGroups
  /\ pixelGroups[i].z # z
  /\ pixelGroups' = [pixelGroups EXCEPT ![i].z = z]
  /\ UNCHANGED << data, camera, innerHeight, bufferGeometries, pc, cursor >>
  /\ UNCHANGED mapVars

\* updatePixelSize (lines 172-182)
UpdatePixelSize ==
  /\ pc = "ready"
  /\ pixelGroups' =
       [i \in DOMAIN pixelGroups |-> withPixelSize(pixelGroups[i], camera, innerHeight)]
  /\ UNCHANGED << data, camera, innerHeight, bufferGeometries, pc, cursor >>
  /\ UNCHANGED mapVars

\* updateBufferGeometry (lines 189-223)
UpdateBufferGeometry ==
  /\ pc = "ready"
  /\ pixelGroups' =
       [i \in DOMAIN pixelGroups |-> withBufferGeometry(pixelGroups[i], camera, innerHeight)]
  /\ UNCHANGED << data, camera, innerHeight, bufferGeometries, pc, cursor >>
  /\ UNCHANGED mapVars

Next ==
  \/ AddColorVertex
  \/ CreateBufferGeometries
  \/ \E v \in Views : SetView(v)
  \/ \E i \in MovedGroups, z \in Depths : MoveGroup(i, z)
  \/ UpdatePixelSize
  \/ UpdateBufferGeometry

Spec == Init /\ [][Next]_vars


\* ------------------------------------------------------------ coordinate mapping, as a system
\* does the constructor throw on grid d
constructorThrows(d) ==
  \E k \in 1..NCells :
    addColorVertexThrows(built(d, k - 1), ParseInt16(d[k]), Cells[k][1], Cells[k][2])

\* the pixels getCoordinatesFromPixel is called with: cells of the grid, and
\* a row and a column next to it
PixelRows == {0, centerRow, NRows - 1, NRows}
PixelCols == {0 - 1, 0, centerCol, NCols - 1}

\* the world coordinates getPixelFromCoordinates is called with (ticks): the
\* origin, the two sides of a cell border, the first and the last row and
\* column, and the first coordinates outside the grid
PickXs ==
  { 0, Half(pixelSize) - 1, Half(pixelSize),
    (0 - centerRow) * pixelSize,
    (0 - centerRow) * pixelSize - Half(pixelSize) - 1,
    (NRows - 1 - centerRow) * pixelSize,
    (NRows - centerRow) * pixelSize }
PickYs ==
  { 0, 0 - Half(pixelSize) - 1,
    (0 - 1 - centerCol) * pixelSize,
    (NCols - centerCol) * pixelSize }

\* the engine after its constructor has returned
InitMap ==
  /\ data \in {d \in Grids : ~constructorThrows(d)}
  /\ camera = [fov |-> HomeView.fov, z |-> HomeView.z]
  /\ innerHeight = HomeView.h
  /\ bufferGeometries = built(data, NCells)
  /\ pixelGroups = createBufferGeometries(bufferGeometries)
  /\ pc = "ready"
  /\ cursor = NCells + 1
  /\ coordsArg = noArg
  /\ coords = noArg
  /\ pickArg = noArg
  /\ pixel = noPixel

GetCoordinatesFromPixel(row, col) ==
  /\ pc = "ready"
  /\ coordsArg' = [set |-> TRUE, a |-> row, b |-> col]
  /\ coords' = [set |-> TRUE,
                a |-> getCoordinatesFromPixel(row, col).x,
                b |-> getCoordinatesFromPixel(row, col).y]
  /\ UNCHANGED << pickArg, pixel >>
  /\ UNCHANGED engineVars

GetPixelFromCoordinates(x, y) ==
  /\ pc = "ready"
  /\ pickArg' = [set |-> TRUE, a |-> x, b |-> y]
  /\ pixel' = getPixelFromCoordinates(data, x, y)
  /\ UNCHANGED << coordsArg, coords >>
  /\ UNCHANGED engineVars

\* a caller maps a pixel to the world and back
PickCoordinates ==
  /\ coords.set
  /\ GetPixelFromCoordinates(coords.a, coords.b)

NextMap ==
  \/ \E row \in PixelRows, col \in PixelCols : GetCoordinatesFromPixel(row, col)
  \/ \E x \in PickXs, y \in PickYs : GetPixelFromCoordinates(x, y)
  \/ PickCoordinates

SpecMap == InitMap /\ [][NextMap]_vars


\* ------------------------------------------------------------ properties
inGrid(row, col) == row \in 0..(NRows - 1) /\ col \in 0..(NCols - 1)

\* the last pick was made on the coordinates of the last getCoordinatesFromPixel
pickedCoords ==
  /\ coordsArg.set
  /\ pickArg.set
  /\ pickArg.a = coords.a
  /\ pickArg.b = coords.b

\* C1: round trip.  For every cell (row, col) of the grid,
\* getPixelFromCoordinates applied to the result of
\* getCoordinatesFromPixel({row, col}) returns the same row and the same col.
C1_RoundTrip ==
  (pickedCoords /\ inGrid(coordsArg.a, coordsArg.b))
    => /\ pixel.kind = "returned"
       /\ pixel.row = coordsArg.a
       /\ pixel.col = coordsArg.b

\* a cell other than the centre cell has made the round trip
C1_Witness ==
  /\ pickedCoords
  /\ coordsArg.a = NRows - 1
  /\ coordsArg.b = 0
  /\ pixel.kind = "returned"
  /\ pixel.row = NRows - 1
  /\ pixel.col = 0

\* C2: getPixelFromCoordinates called with coordinates whose row or col lies
\* outside the grid returns an explicit out-of-bounds result: it does not
\* throw and it returns no colorIndex read from outside the grid.
C2_OutOfBounds ==
  (pixel.kind # "none" /\ ~inGrid(pixel.row, pixel.col))
    => pixel.kind = "OutOfBounds"

\* the cells the build pass has called addColorVertex for (the call for the
\* cell under the cursor included)
reached == {k \in 1..NCells : k <= cursor}

\* the cells whose addColorVertex has returned
visited == {k \in 1..NCells : k < cursor}

colorIndexOf(k) == ParseInt16(data[k])

\* the bucket the constructor created for colour c (its place in the key order)
bucketCreatedFor(c) ==
  LET keys == countsByColorKeys(data)
  IN  bufferGeometries[CHOOSE p \in 1..Len(keys) : keys[p] = c]

\* C3: for every colour index present in the grid and every cell the build
\* pass reaches, the sub-group index computed by addColorVertex lies in
\* [0, getNGroups(colorIndex) - 1], so it is the index of one of the batches
\* created for that colour (and of a batch of bufferGeometries[colorIndex]
\* when that bucket exists).
C3_GroupInRange ==
  \A k \in reached :
    LET c == colorIndexOf(k)
        g == groupNumberOf(c, Cells[k][1], Cells[k][2])
    IN  /\ g \in 0..(getNGroups(c) - 1)
        /\ g + 1 \in DOMAIN bucketCreatedFor(c)
        /\ BucketDefined(bufferGeometries, c) => SlotDefined(bufferGeometries, c, g)

\* a cell whose hash is not 0 has been stored in the batch of that sub-group
C3_Witness ==
  \E k \in visited :
    LET c == colorIndexOf(k)
        g == groupNumberOf(c, Cells[k][1], Cells[k][2])
    IN  /\ g > 0
        /\ Cells[k] # << centerRow, centerCol >>
        /\ bufferGeometries[c + 1][g + 1].indices # << >>

\* how many vertices of a list of centres are anchored at vertex
anchoredAt(centers, vertex) ==
  Cardinality({n \in 1..(Len(centers) \div 3) :
                 SubSeq(centers, 3 * n - 2, 3 * n) = vertex})

batchIds(bg) == {<< p, g >> \in (DOMAIN bg) \X (1..(3 * N_GROUPS)) : g \in DOMAIN bg[p]}

centerCell == CHOOSE k \in 1..Len(SampleCells) : SampleCells[k] = << centerRow, centerCol >>

lockstep(positions, centers, indices) ==
  /\ Len(positions) = Len(centers)
  /\ Len(positions) = 3 * Len(indices)
  /\ Len(indices) % 3 = 0

\* the lists of every batch and the arrays of every mesh are in lockstep, and
\* a mesh holds as many floats as the batch it was made from
C5_Lockstep ==
  /\ \A id \in batchIds(bufferGeometries) :
       LET b == bufferGeometries[id[1]][id[2]]
       IN  lockstep(b.positions, b.centers, b.indices)
  /\ \A i \in DOMAIN pixelGroups :
       lockstep(pixelGroups[i].position, pixelGroups[i].center, pixelGroups[i].vertexIndex)
  /\ pc = "ready" =>
       \A id \in batchIds(bufferGeometries) :
         Len(pixelGroups[meshIndex(bufferGeometries, id[1] - 1, id[2] - 1)].position)
           = Len(bufferGeometries[id[1]][id[2]].positions)

\* once the meshes exist no step changes the length of a list or of an array
C5_LengthsKept ==
  pc = "ready" =>
    /\ \A id \in batchIds(bufferGeometries) :
         LET b == bufferGeometries[id[1]][id[2]]
             c == bufferGeometries'[id[1]][id[2]]
         IN  /\ Len(c.positions) = Len(b.positions)
             /\ Len(c.centers) = Len(b.centers)
             /\ Len(c.indices) = Len(b.indices)
    /\ DOMAIN pixelGroups' = DOMAIN pixelGroups
    /\ \A i \in DOMAIN pixelGroups :
         /\ Len(pixelGroups'[i].position) = Len(pixelGroups[i].position)
         /\ Len(pixelGroups'[i].center) = Len(pixelGroups[i].center)
         /\ Len(pixelGroups'[i].vertexIndex) = Len(pixelGroups[i].vertexIndex)

\* C5: buffer lockstep.  After every addColorVertex, once the build pass has
\* finished, and after any sequence of camera changes, updatePixelSize and
\* updateBufferGeometry calls, every batch has
\* len(positions) = len(centers) = 3 * len(indices) and len(indices) % 3 = 0,
\* and the buffer lengths never change after materialization.
C5_BufferLockstep == [](C5_Lockstep) /\ [][C5_LengthsKept]_vars

\* a mesh that holds quads has had its size uniform and its positions rewritten
C5_Witness ==
  /\ pc = "ready"
  /\ \E i \in DOMAIN pixelGroups :
       /\ Len(pixelGroups[i].position) > 18
       /\ pixelGroups[i].positionNeedsUpdate
       /\ pixelGroups[i].size.needsUpdate
       /\ pixelGroups[i].size.value # pixelSize

\* the visible world height of getSize is positive
heightPositive(pixelGroup, cam) ==
  /\ distanceOffset * cam.z - pixelGroup.z > 0
  /\ cam.fov > 0
  /\ cam.fov < 180

C7_OnlyWhenChanged ==
  [][UpdatePixelSize =>
       \A i \in DOMAIN pixelGroups :
         getSize(pixelGroups[i], camera, innerHeight) = pixelGroups[i].size.value
           => pixelGroups'[i].size = pixelGroups[i].size]_vars

\* C8: immediately after updateBufferGeometry, every vertex j of every batch
\* has x and y equal to its centre plus the half-size offset its corner tag
\* selects (0: -x +y, 1: +x +y, 2: -x -y, 3: +x -y), with the size getSize
\* gives for the current camera; the centres, the tags and every z are
\* unchanged and the position attribute is marked dirty.
C8_GeometryRewritten ==
  [][UpdateBufferGeometry =>
       /\ DOMAIN pixelGroups' = DOMAIN pixelGroups
       /\ \A i \in DOMAIN pixelGroups :
            LET old == pixelGroups[i]
                new == pixelGroups'[i]
                half == Half(getSize(new, camera', innerHeight'))
            IN  /\ new.center = old.center
                /\ new.vertexIndex = old.vertexIndex
                /\ new.positionNeedsUpdate
                /\ Len(new.position) = Len(old.position)
                /\ \A j \in 0..(Len(new.vertexIndex) - 1) :
                     LET tag == new.vertexIndex[j + 1]
                         sx == IF tag \in {1, 3} THEN 1 ELSE 0 - 1
                         sy == IF tag \in {0, 1} THEN 1 ELSE 0 - 1
                     IN  /\ tag \in 0..3
                         /\ new.position[3 * j + 1] = new.center[3 * j + 1] + sx * half
                         /\ new.position[3 * j + 2] = new.center[3 * j + 2] + sy * half
                         /\ new.position[3 * j + 3] = old.position[3 * j + 3]]_vars

\* the positions of a mesh that holds quads have been rewritten to a size
\* other than the nominal one, after the camera moved and updatePixelSize ran
C8_Witness ==
  /\ pc = "ready"
  /\ \E i \in DOMAIN pixelGroups :
       /\ pixelGroups[i].positionNeedsUpdate
       /\ pixelGroups[i].size.needsUpdate
       /\ Len(pixelGroups[i].position) > 0
       /\ pixelGroups[i].position[1] # pixelGroups[i].center[1] - Half(pixelSize)
       /\ pixelGroups[i].position[1] =
            pixelGroups[i].center[1] - Half(getSize(pixelGroups[i], camera, innerHeight))

\* the batches that hold the quad of cell k
holders(k) ==
  {id \in batchIds(bufferGeometries) :
     anchoredAt(bufferGeometries[id[1]][id[2]].centers,
                vertexOf(Cells[k][1], Cells[k][2])) > 0}

\* C9: colour fidelity.  For every grid, whatever subset of the palette it
\* uses, construction succeeds and every cell other than the centre cell has
\* its quad in a batch whose colour uniform is the palette colour of the
\* colour index the grid holds at that cell.
C9_ColourFidelity ==
  /\ pc # "crashed"
  /\ pc = "ready" =>
       \A k \in 1..NCells :
         Cells[k] # << centerRow, centerCol >> =>
           /\ holders(k) # {}
           /\ \A id \in holders(k) :
                pixelGroups[meshIndex(bufferGeometries, id[1] - 1, id[2] - 1)].color
                  = getColorByIndex(colorIndexOf(k))

\* C10: for every colour index c of the grid the last sub-group batch
\* (c, getNGroups(c) - 1) receives no quad during the build pass: its lists
\* are empty, in the lists and in the mesh createBufferGeometries makes for it.
C10_LastGroupEmpty ==
  /\ \A p \in DOMAIN bufferGeometries :
       bufferGeometries[p][Len(bufferGeometries[p])] = emptyBatch
  /\ \A k \in 1..NCells :
       LET c == colorIndexOf(k)
       IN  /\ bucketCreatedFor(c)[getNGroups(c)] = emptyBatch
           /\ BucketDefined(bufferGeometries, c) =>
                /\ SlotDefined(bufferGeometries, c, getNGroups(c) - 1)
                /\ bufferGeometries[c + 1][getNGroups(c)] = emptyBatch
  /\ pc = "ready" =>
       /\ Len(pixelGroups) = groupsBefore(bufferGeometries, Len(bufferGeometries))
       /\ \A p \in DOMAIN bufferGeometries :
            LET mesh == pixelGroups[meshIndex(bufferGeometries, p - 1, Len(bufferGeometries[p]) - 1)]
            IN  /\ mesh.position = << >>
                /\ mesh.center = << >>
                /\ mesh.vertexIndex = << >>

\* the build pass has finished on a grid of three colours, every cell is
\* stored, and the meshes are registered
C10_Witness ==
  /\ pc = "ready"
  /\ Len(bufferGeometries) = 3
  /\ \A k \in 1..NCells : holders(k) # {}
  /\ Len(pixelGroups) = 5 * N_GROUPS

====
